---- MODULE Spec2Model ----
(***************************************************************************)
(* Webhook routing and PR-issue synchronisation of the GitHub/Jira         *)
(* integration service: the two webhook endpoints, the event handlers      *)
(* they dispatch to, the GitHub enrichment client and the Jira client.     *)
(* A request is handled by its own worker; every upstream call is one step *)
(* of that worker and the handler code between two calls belongs to the    *)
(* step of the call it follows. Each request keeps the trace of what its   *)
(* handling did: the dispatch, the log records and the upstream calls.     *)
(***************************************************************************)
EXTENDS Integers, Sequences, FiniteSets, TLC

(* ------------------------------ bounds --------------------------------- *)

\* webhook deliveries explored in one behaviour
MaxDeliveries == 2

\* commits carried by one push payload
MaxCommits == 2

(* ------------------------- inputs and constants ------------------------ *)

\* request slots: one worker per inbound request
Slots == {"w1", "w2"}

Entries == {"org", "repo"}

\* io.ReadAll fails | not JSON | JSON but not an object | JSON null | object
Bodies == {"unreadable", "malformed", "array", "null", "object"}

\* X-GitHub-Event header values ("" = header absent)
EventTypes == {"", "repository", "push", "pull_request", "ping", "issues"}

PRNumbers == {1, 2}

RepoNames == {"r1", "r2"}

\* commit ids of a push payload: absent, shorter than 8 characters, full
CommitIds == {"", "abc", "c1c1c1c1c1", "c2c2c2c2c2"}

\* additions reported by the commit-detail call
StatsValues == {3, 7}

ProjectKey == "REP"

OrgConfirmation == "Organization webhook processed successfully"

RepoConfirmation == "Repository webhook processed successfully"

\* status a freshly created issue has in the tracker
InitialStatus == "To Do"

\* transition lists the tracker may report for an issue
TransitionLists ==
  { <<>>,
    << [id |-> 11, to |-> "Open_PR"] >>,
    << [id |-> 21, to |-> "Merged_PR"] >>,
    << [id |-> 31, to |-> "open_pr"], [id |-> 41, to |-> "merged_pr"] >>,
    << [id |-> 21, to |-> "Merged_PR"], [id |-> 11, to |-> "Open_PR"],
       [id |-> 12, to |-> "Open_PR"], [id |-> 22, to |-> "Merged_PR"] >> }

(* ------------------------------ state ---------------------------------- *)

VARIABLES
  jiraClient,   \* TRUE iff WebhookHandler.jiraClient is non-nil
  req,          \* per slot: the request being handled and its worker's position
  issues,       \* the tracker's issues of project REP, in creation order
  delivered     \* number of webhook deliveries so far

vars == <<jiraClient, req, issues, delivered>>

(* ------------------------------ payloads ------------------------------- *)

\* a decoded payload document; absent fields read as the zero value
EmptyPayload ==
  [ action |-> "", hasRepo |-> FALSE, repo |-> "", pr |-> "absent",
    number |-> 0, merged |-> FALSE, hasCommits |-> FALSE, commits |-> <<>> ]

CommitElems ==
  {[isMap |-> FALSE, id |-> ""]} \cup {[isMap |-> TRUE, id |-> c] : c \in CommitIds}

CommitSeqs == UNION {[1..n -> CommitElems] : n \in 0..MaxCommits}

RepositoryPayloads ==
  { [EmptyPayload EXCEPT !.action = a, !.hasRepo = (rn # ""), !.repo = rn] :
      a \in {"", "created", "deleted"}, rn \in {"", "r1"} }

PushPayloads ==
  {EmptyPayload} \cup
  { [EmptyPayload EXCEPT !.hasRepo = TRUE, !.repo = "r1",
                         !.hasCommits = TRUE, !.commits = cs] : cs \in CommitSeqs }

PullRequestPayloads ==
  { [EmptyPayload EXCEPT !.action = am[1], !.merged = am[2],
                         !.hasRepo = (rn # ""), !.repo = rn,
                         !.pr = IF n = -1 THEN "absent" ELSE IF n = 0 THEN "nonumber" ELSE "ok",
                         !.number = IF n > 0 THEN n ELSE 0] :
      am \in { <<"", FALSE>>, <<"opened", FALSE>>, <<"closed", FALSE>>,
               <<"closed", TRUE>>, <<"synchronize", FALSE>>, <<"edited", FALSE>> },
      rn \in {""} \cup RepoNames,
      n \in {-1, 0} \cup PRNumbers }

\* the payload documents explored for a body and an event type
PayloadsFor(body, eventType) ==
  IF body # "object" THEN {EmptyPayload}
  ELSE IF eventType = "repository" THEN RepositoryPayloads
  ELSE IF eventType = "push" THEN PushPayloads
  ELSE IF eventType = "pull_request" THEN PullRequestPayloads
  ELSE {EmptyPayload}

(* --------------------------- request records --------------------------- *)

NoTransition == [id |-> 0, to |-> ""]

IdleReq ==
  [ pc |-> "idle", entry |-> "", eventType |-> "", body |-> "",
    payload |-> EmptyPayload, trace |-> <<>>, status |-> 0, respBody |-> "",
    i |-> 0, stats |-> 0, issueKey |-> 0, target |-> "", trans |-> NoTransition,
    err |-> "" ]

\* one entry of a request's trace: a dispatch, a log record or an upstream call
BaseEntry ==
  [ k |-> "", op |-> "", key |-> 0, n |-> 0, s |-> "", ok |-> TRUE,
    tl |-> <<>>, labels |-> <<>>, res |-> <<>>, d |-> "", q |-> "" ]

Info(msg, n, s) == [BaseEntry EXCEPT !.k = "info", !.op = msg, !.n = n, !.s = s]

Error(msg, n, s) == [BaseEntry EXCEPT !.k = "error", !.op = msg, !.n = n, !.s = s]

Dispatch(handler) == [BaseEntry EXCEPT !.k = "dispatch", !.op = handler]

GithubCall(op, n, s, ok) ==
  [BaseEntry EXCEPT !.k = "github", !.op = op, !.n = n, !.s = s, !.ok = ok]

JiraCall(op, key, n, s, ok) ==
  [BaseEntry EXCEPT !.k = "jira", !.op = op, !.key = key, !.n = n, !.s = s, !.ok = ok]

Emit(r, e) == [r EXCEPT !.trace = Append(@, e)]

Return(r) == [r EXCEPT !.pc = "return"]

\* an unrecovered run-time panic in the handler: net/http recovers it per
\* connection and closes the connection without writing a response
Panic(r) == [r EXCEPT !.pc = "panicked"]

\* the tail of both endpoints once the event handler has returned
Respond(r) ==
  IF r.pc # "return" THEN r
  ELSE [r EXCEPT !.pc = "done", !.status = 200,
                 !.respBody = IF r.entry = "org" THEN OrgConfirmation
                              ELSE RepoConfirmation]

\* http.Error(w, msg, http.StatusBadRequest) after logging the cause
Reject(r, cause, msg) ==
  [Emit(r, Error(cause, 0, "")) EXCEPT !.pc = "done", !.status = 400, !.respBody = msg]

(* --------------------------- pure helpers ------------------------------ *)

\* fmt.Sprintf("pr-%d", prNumber)
PRLabel(n) == "pr-" \o ToString(n)

\* mutant of IssueLabels: the PR-number label is left off the new issue
IssueLabels_NoPRLabel(n) == <<"github-pr">>

\* the labels CreatePRIssue puts on the issue
IssueLabels(n) == <<"github-pr", PRLabel(n)>>

\* the error an upstream client call returns when it fails
UpstreamError == "upstream error"

\* fmt.Errorf("PR issue not found")
NotFoundError == "PR issue not found"

\* fmt.Errorf("no transition found to status: %s", targetStatus)
NoTransitionError(target) == "no transition found to status: " \o target

\* mutant of JQL: the query names the label only
JQL_LabelOnly(project, n) == "labels = \"" \o PRLabel(n) \o "\""

\* the query FindPRIssue sends
JQL(project, n) ==
  "project = \"" \o project \o "\" AND labels = \"" \o PRLabel(n) \o "\""

\* return &issues[0], nil
FoundIssue(res) == res[1]

\* commitSHA[:8]
ShaPrefix(sha) == SubSeq(sha, 1, 8)

RECURSIVE NextCommit(_, _)
\* index of the first commit at or after i that is a JSON object (the loop's
\* "continue" on a failed type assertion), Len+1 when there is none
NextCommit(commits, i) ==
  IF i > Len(commits) THEN i
  ELSE IF commits[i].isMap THEN i
  ELSE NextCommit(commits, i + 1)

\* mutant of FirstMatch: the last matching transition at or after i
FirstMatch_LastMatch(tl, target, i) ==
  LET hits == {j \in i..Len(tl) : tl[j].to = target} IN
  IF hits = {} THEN 0 ELSE CHOOSE j \in hits : \A h \in hits : h <= j

RECURSIVE FirstMatch(_, _, _)
\* index of the first transition of tl at or after i whose destination name
\* equals target, 0 when there is none
FirstMatch(tl, target, i) ==
  IF i > Len(tl) THEN 0
  ELSE IF tl[i].to = target THEN i
  ELSE FirstMatch(tl, target, i + 1)

\* keys of the issues a JQL search project = "<project>" AND labels = "<label>" matches
Matching(project, label) ==
  { k \in 1..Len(issues) :
      /\ issues[k].project = project
      /\ \E j \in 1..Len(issues[k].labels) : issues[k].labels[j] = label }

(* ------------------- handler code between upstream calls --------------- *)

\* mutant of handleRepositoryEvent: the action is not looked at
handleRepositoryEvent_AnyAction(r) ==
  IF ~r.payload.hasRepo
    THEN Return(Emit(r, Error("Invalid repository data in payload", 0, "")))
  ELSE [Emit(r, Info("NEW REPOSITORY CREATED!", 0, r.payload.repo)) EXCEPT !.pc = "hook"]

\* handleRepositoryEvent up to the webhook registration
handleRepositoryEvent(r) ==
  IF r.payload.action # "created" THEN Return(r)
  ELSE IF ~r.payload.hasRepo
    THEN Return(Emit(r, Error("Invalid repository data in payload", 0, "")))
  ELSE [Emit(r, Info("NEW REPOSITORY CREATED!", 0, r.payload.repo)) EXCEPT !.pc = "hook"]

\* handlePushEvent: summary log only
handlePushEvent(r) ==
  Return(Emit(r, Info("Push event detected in repo", 0, r.payload.repo)))

\* handlePullRequestEvent: summary log only
handlePullRequestEvent(r) ==
  Return(Emit(r, Info("PR event", r.payload.number, r.payload.action)))

\* the commit loop of handlePushEventDetailed, entered at index i
PushLoop(r, i) ==
  LET j == NextCommit(r.payload.commits, i) IN
  IF j > Len(r.payload.commits) THEN Return(r)
  ELSE [r EXCEPT !.pc = "commit_detail", !.i = j]

\* handlePushEventDetailed up to the first commit-detail call
handlePushEventDetailed(r) ==
  IF ~r.payload.hasCommits
    THEN Return(Emit(r, Error("No commits found in push payload", 0, "")))
  ELSE PushLoop(Emit(r, Info("DETAILED PUSH EVENT", Len(r.payload.commits),
                             r.payload.repo)), 1)

\* mutant of logDetailedCommit: no record when the diff is the placeholder
logDetailedCommit_SkipsOnPlaceholder(r, diff) ==
  IF diff = "Diff unavailable" THEN r
  ELSE Emit(r, [Info("COMMIT DETAILS", r.i, r.payload.commits[r.i].id)
                  EXCEPT !.key = r.stats, !.d = diff])

\* logDetailedCommit(i+1, commitInfo)
logDetailedCommit(r, diff) ==
  Emit(r, [Info("COMMIT DETAILS", r.i, r.payload.commits[r.i].id)
             EXCEPT !.key = r.stats, !.d = diff])

\* handlePullRequestEventDetailed up to the first enrichment call; the
\* unchecked assertion prData["number"].(float64) panics when absent
handlePullRequestEventDetailed(r) ==
  IF r.payload.pr # "ok" THEN Panic(r)
  ELSE [Emit(r, Info("DETAILED PR EVENT", r.payload.number, r.payload.action))
          EXCEPT !.pc = "pr_get"]

\* logDetailedPR(action, prDetails), the last statement of the PR handler
logDetailedPR(r) ==
  Return(Emit(r, Info("PULL REQUEST", r.payload.number, r.payload.action)))

\* mutant of SyncPR: an opened event is skipped when the tracker already holds
\* an issue labelled for the pull request
SyncPR_Deduplicates(r) ==
  IF ~jiraClient THEN logDetailedPR(r)
  ELSE IF r.payload.action = "opened"
    THEN IF Matching(ProjectKey, PRLabel(r.payload.number)) # {}
           THEN logDetailedPR(r)
         ELSE [Emit(r, Info("Creating Jira issue for PR", r.payload.number,
                            r.payload.repo))
                 EXCEPT !.pc = "create"]
  ELSE IF r.payload.action = "closed" /\ r.payload.merged
    THEN [Emit(r, Info("Moving PR to Merged_PR status in Jira", r.payload.number, ""))
            EXCEPT !.pc = "search"]
  ELSE logDetailedPR(r)

\* mutant of SyncPR: a synchronize event moves the issue to Merged_PR
SyncPR_MergesOnSynchronize(r) ==
  IF ~jiraClient THEN logDetailedPR(r)
  ELSE IF r.payload.action = "opened"
    THEN [Emit(r, Info("Creating Jira issue for PR", r.payload.number, r.payload.repo))
            EXCEPT !.pc = "create"]
  ELSE IF (r.payload.action = "closed" /\ r.payload.merged)
          \/ r.payload.action = "synchronize"
    THEN [Emit(r, Info("Moving PR to Merged_PR status in Jira", r.payload.number, ""))
            EXCEPT !.pc = "search"]
  ELSE logDetailedPR(r)

\* mutant of SyncPR: a closed event is treated as merged without reading the
\* merged flag
SyncPR_IgnoresMerged(r) ==
  IF ~jiraClient THEN logDetailedPR(r)
  ELSE IF r.payload.action = "opened"
    THEN [Emit(r, Info("Creating Jira issue for PR", r.payload.number, r.payload.repo))
            EXCEPT !.pc = "create"]
  ELSE IF r.payload.action = "closed"
    THEN [Emit(r, Info("Moving PR to Merged_PR status in Jira", r.payload.number, ""))
            EXCEPT !.pc = "search"]
  ELSE logDetailedPR(r)

\* mutant of SyncPR: the tracker client is used without the nil check
SyncPR_SkipsNilCheck(r) ==
  IF r.payload.action = "opened"
    THEN [Emit(r, Info("Creating Jira issue for PR", r.payload.number, r.payload.repo))
            EXCEPT !.pc = "create"]
  ELSE IF r.payload.action = "closed"
    THEN IF r.payload.merged
           THEN [Emit(r, Info("Moving PR to Merged_PR status in Jira",
                              r.payload.number, ""))
                   EXCEPT !.pc = "search"]
         ELSE logDetailedPR(r)
  ELSE IF r.payload.action = "synchronize"
    THEN logDetailedPR(Emit(r, Info("PR updated - keeping existing Jira issue",
                                    r.payload.number, "")))
  ELSE logDetailedPR(r)

\* handlePullRequestEventDetailed after a successful enrichment: the switch
\* on the action, up to the first tracker call
SyncPR(r) ==
  IF ~jiraClient THEN logDetailedPR(r)
  ELSE IF r.payload.action = "opened"
    THEN [Emit(r, Info("Creating Jira issue for PR", r.payload.number, r.payload.repo))
            EXCEPT !.pc = "create"]
  ELSE IF r.payload.action = "closed"
    THEN IF r.payload.merged
           THEN [Emit(r, Info("Moving PR to Merged_PR status in Jira",
                              r.payload.number, ""))
                   EXCEPT !.pc = "search"]
         ELSE logDetailedPR(r)
  ELSE IF r.payload.action = "synchronize"
    THEN logDetailedPR(Emit(r, Info("PR updated - keeping existing Jira issue",
                                    r.payload.number, "")))
  ELSE logDetailedPR(r)

\* mutant of AfterMove: handlePRMerged reports success whatever MovePRToMerged
\* returned
AfterMove_IgnoresError(r, ok) ==
  IF r.target = "Open_PR"
    THEN logDetailedPR(Emit(r, Info("Created Jira issue in Open_PR status",
                                    r.payload.number, "")))
  ELSE logDetailedPR(Emit(r, Info("Moved PR to Merged_PR status successfully",
                                  r.payload.number, "")))

\* mutant of AfterMove: a failed move to Open_PR is reported as a failed creation
AfterMove_OpenFailureFails(r, ok) ==
  IF r.target = "Open_PR" /\ ok
    THEN logDetailedPR(Emit(r, Info("Created Jira issue in Open_PR status",
                                    r.payload.number, "")))
  ELSE IF r.target = "Open_PR"
    THEN logDetailedPR(Emit(r, Error("Failed to create Jira issue",
                                     r.payload.number, r.err)))
  ELSE IF ok
    THEN logDetailedPR(Emit(r, Info("Moved PR to Merged_PR status successfully",
                                    r.payload.number, "")))
  ELSE logDetailedPR(Emit(r, Error("Failed to move PR to merged",
                                   r.payload.number, r.err)))

\* what follows moveToStatus in its two callers: CreatePRIssue drops the
\* result and handlePROpened reports the creation; MovePRToMerged returns it
\* and handlePRMerged logs the failure or the success
AfterMove(r, ok) ==
  IF r.target = "Open_PR"
    THEN logDetailedPR(Emit(r, Info("Created Jira issue in Open_PR status",
                                    r.payload.number, "")))
  ELSE IF ok
    THEN logDetailedPR(Emit(r, Info("Moved PR to Merged_PR status successfully",
                                    r.payload.number, "")))
  ELSE logDetailedPR(Emit(r, Error("Failed to move PR to merged",
                                   r.payload.number, r.err)))

(* ---------------------------- initial state ---------------------------- *)

\* main: the tracker client is nil when its configuration is missing or its
\* construction failed; no request is in flight and the tracker is empty
Init ==
  /\ jiraClient \in BOOLEAN
  /\ req = [s \in Slots |-> IdleReq]
  /\ issues = <<>>
  /\ delivered = 0

(* ------------------------------ actions -------------------------------- *)

\* the router hands a POST on /webhook/org or /webhook/repo to a new worker
Deliver(s) ==
  /\ delivered < MaxDeliveries
  /\ req[s].pc = "idle"
  /\ \E entry \in Entries, body \in Bodies, eventType \in EventTypes :
       \E payload \in PayloadsFor(body, eventType) :
         req' = [req EXCEPT ![s] = [IdleReq EXCEPT !.pc = "recv", !.entry = entry,
                                                   !.body = body,
                                                   !.eventType = eventType,
                                                   !.payload = payload]]
  /\ delivered' = delivered + 1
  /\ UNCHANGED <<jiraClient, issues>>

\* mutant of RequestError: the result of json.Unmarshal is not checked
RequestError_SkipsJSONCheck(r) ==
  IF r.body = "unreadable" THEN "Invalid request body"
  ELSE IF r.eventType = "" THEN "Missing event type"
  ELSE ""

\* the three request checks shared by both endpoints; "" when the request passes
RequestError(r) ==
  IF r.body = "unreadable" THEN "Invalid request body"
  ELSE IF r.eventType = "" THEN "Missing event type"
  ELSE IF r.body \in {"malformed", "array"} THEN "Invalid JSON payload"
  ELSE ""

\* the log line that goes with each request error
RequestErrorLog(msg) ==
  IF msg = "Invalid request body" THEN "Failed to read request body"
  ELSE IF msg = "Missing event type" THEN "Missing X-GitHub-Event header"
  ELSE "Failed to parse JSON payload"

\* mutant of OrgDispatch: pull_request events go to the detailed handler
OrgDispatch_UsesDetailedPR(r) ==
  IF r.eventType = "repository"
    THEN handleRepositoryEvent(Emit(r, Dispatch("handleRepositoryEvent")))
  ELSE IF r.eventType = "push"
    THEN handlePushEvent(Emit(r, Dispatch("handlePushEvent")))
  ELSE IF r.eventType = "pull_request"
    THEN handlePullRequestEventDetailed(Emit(r, Dispatch("handlePullRequestEvent")))
  ELSE IF r.eventType = "ping"
    THEN Return(Emit(Emit(r, Dispatch("ping")), Info("Received ping event", 0, "org")))
  ELSE Return(Emit(Emit(r, Dispatch("default")),
                   Info("Received org-level event", 0, r.eventType)))

\* the switch of HandleOrgWebhook
OrgDispatch(r) ==
  IF r.eventType = "repository"
    THEN handleRepositoryEvent(Emit(r, Dispatch("handleRepositoryEvent")))
  ELSE IF r.eventType = "push"
    THEN handlePushEvent(Emit(r, Dispatch("handlePushEvent")))
  ELSE IF r.eventType = "pull_request"
    THEN handlePullRequestEvent(Emit(r, Dispatch("handlePullRequestEvent")))
  ELSE IF r.eventType = "ping"
    THEN Return(Emit(Emit(r, Dispatch("ping")), Info("Received ping event", 0, "org")))
  ELSE Return(Emit(Emit(r, Dispatch("default")),
                   Info("Received org-level event", 0, r.eventType)))

\* mutant of RepoDispatch: repository events are provisioned from the
\* repository-scope endpoint too
RepoDispatch_HandlesRepository(r) ==
  IF r.eventType = "repository"
    THEN handleRepositoryEvent(Emit(r, Dispatch("handleRepositoryEvent")))
  ELSE IF r.eventType = "push"
    THEN handlePushEventDetailed(Emit(r, Dispatch("handlePushEventDetailed")))
  ELSE IF r.eventType = "pull_request"
    THEN handlePullRequestEventDetailed(
           Emit(r, Dispatch("handlePullRequestEventDetailed")))
  ELSE IF r.eventType = "ping"
    THEN Return(Emit(Emit(r, Dispatch("ping")), Info("Received ping event", 0, "repo")))
  ELSE Return(Emit(Emit(r, Dispatch("default")),
                   Info("Received repo-level event", 0, r.eventType)))

\* the switch of HandleRepoWebhook
RepoDispatch(r) ==
  IF r.eventType = "push"
    THEN handlePushEventDetailed(Emit(r, Dispatch("handlePushEventDetailed")))
  ELSE IF r.eventType = "pull_request"
    THEN handlePullRequestEventDetailed(
           Emit(r, Dispatch("handlePullRequestEventDetailed")))
  ELSE IF r.eventType = "ping"
    THEN Return(Emit(Emit(r, Dispatch("ping")), Info("Received ping event", 0, "repo")))
  ELSE Return(Emit(Emit(r, Dispatch("default")),
                   Info("Received repo-level event", 0, r.eventType)))

\* HandleOrgWebhook, up to the first upstream call of the handler it dispatches to
HandleOrgWebhook(s) ==
  /\ req[s].pc = "recv"
  /\ req[s].entry = "org"
  /\ LET r == req[s]
         e == RequestError(r) IN
       req' = [req EXCEPT ![s] = IF e # "" THEN Reject(r, RequestErrorLog(e), e)
                                 ELSE Respond(OrgDispatch(r))]
  /\ UNCHANGED <<jiraClient, issues, delivered>>

\* HandleRepoWebhook, up to the first upstream call of the handler it dispatches to
HandleRepoWebhook(s) ==
  /\ req[s].pc = "recv"
  /\ req[s].entry = "repo"
  /\ LET r == req[s]
         e == RequestError(r) IN
       req' = [req EXCEPT ![s] = IF e # "" THEN Reject(r, RequestErrorLog(e), e)
                                 ELSE Respond(RepoDispatch(r))]
  /\ UNCHANGED <<jiraClient, issues, delivered>>

\* CreateRepoWebhook and the rest of handleRepositoryEvent
CreateRepoWebhook(s) ==
  /\ req[s].pc = "hook"
  /\ \E ok \in BOOLEAN :
       LET r  == req[s]
           r1 == Emit(r, GithubCall("Repositories.CreateHook", 0, r.payload.repo, ok))
           r2 == IF ok THEN Emit(r1, Info("Successfully added webhook to new repo",
                                          0, r.payload.repo))
                 ELSE Emit(r1, Error("Failed to add webhook to new repo",
                                     0, r.payload.repo)) IN
       req' = [req EXCEPT ![s] = Respond(Return(r2))]
  /\ UNCHANGED <<jiraClient, issues, delivered>>

\* mutant of GetCommitDetails: a failure ends the whole push
GetCommitDetails_AbortsOnFailure(s) ==
  /\ req[s].pc = "commit_detail"
  /\ LET r   == req[s]
         sha == r.payload.commits[r.i].id IN
       \/ req' = [req EXCEPT ![s] =
                    Respond(Return(
                      Emit(Emit(r, GithubCall("GetCommitDetails", r.i, sha, FALSE)),
                           Error("Failed to get commit details", r.i, sha))))]
       \/ \E st \in StatsValues :
            req' = [req EXCEPT ![s] =
                      [Emit(r, [GithubCall("GetCommitDetails", r.i, sha, TRUE)
                                  EXCEPT !.key = st])
                         EXCEPT !.pc = "commit_diff", !.stats = st]]
  /\ UNCHANGED <<jiraClient, issues, delivered>>

\* GetCommitDetails for commit i: on failure the commit is skipped
GetCommitDetails(s) ==
  /\ req[s].pc = "commit_detail"
  /\ LET r   == req[s]
         sha == r.payload.commits[r.i].id IN
       \/ req' = [req EXCEPT ![s] =
                    Respond(PushLoop(
                      Emit(Emit(r, GithubCall("GetCommitDetails", r.i, sha, FALSE)),
                           Error("Failed to get commit details", r.i, sha)),
                      r.i + 1))]
       \/ \E st \in StatsValues :
            req' = [req EXCEPT ![s] =
                      [Emit(r, [GithubCall("GetCommitDetails", r.i, sha, TRUE)
                                  EXCEPT !.key = st])
                         EXCEPT !.pc = "commit_diff", !.stats = st]]
  /\ UNCHANGED <<jiraClient, issues, delivered>>

\* GetFileDiff for commit i, the commit's log record and the loop's next round
GetFileDiff(s) ==
  /\ req[s].pc = "commit_diff"
  /\ \E ok \in BOOLEAN :
       LET r   == req[s]
           sha == r.payload.commits[r.i].id
           r1  == Emit(r, GithubCall("GetFileDiff", r.i, sha, ok)) IN
       req' = [req EXCEPT ![s] =
                 IF ~ok
                   THEN Respond(PushLoop(
                          logDetailedCommit(
                            Emit(r1, Error("Failed to get file diff", r.i, sha)),
                            "Diff unavailable"),
                          r.i + 1))
                 ELSE IF Len(sha) < 8 THEN Panic(r1)
                 ELSE Respond(PushLoop(
                        logDetailedCommit(r1, "=== COMMIT DIFF: " \o ShaPrefix(sha)),
                        r.i + 1))]
  /\ UNCHANGED <<jiraClient, issues, delivered>>

\* mutant of EnrichStep: a failed call is treated like a successful one
EnrichStep_IgnoresFailure(s, pcNow, op, pcNext) ==
  /\ req[s].pc = pcNow
  /\ \E ok \in BOOLEAN :
       LET r  == req[s]
           r1 == Emit(r, GithubCall(op, r.payload.number, r.payload.repo, ok)) IN
       req' = [req EXCEPT ![s] =
                 IF pcNext = "sync" THEN Respond(SyncPR(r1))
                 ELSE [r1 EXCEPT !.pc = pcNext]]
  /\ UNCHANGED <<jiraClient, issues, delivered>>

\* mutant of EnrichStep: a call that failed is made a second time
EnrichStep_RetriesOnce(s, pcNow, op, pcNext) ==
  /\ req[s].pc = pcNow
  /\ \E ok \in BOOLEAN :
       LET r     == req[s]
           r1    == Emit(r, GithubCall(op, r.payload.number, r.payload.repo, ok))
           tried == \E j \in DOMAIN r.trace : r.trace[j].op = op IN
       req' = [req EXCEPT ![s] =
                 IF ~ok /\ ~tried THEN r1
                 ELSE IF ~ok
                   THEN Respond(Return(Emit(r1, Error("Failed to get PR details",
                                                      r.payload.number, ""))))
                 ELSE IF pcNext = "sync" THEN Respond(SyncPR(r1))
                 ELSE [r1 EXCEPT !.pc = pcNext]]
  /\ UNCHANGED <<jiraClient, issues, delivered>>

\* one of the three sequential calls of GetPullRequestDetails: pcNext is the
\* next call, or "sync" after the last one, when the handler goes on to the
\* switch on the action
EnrichStep(s, pcNow, op, pcNext) ==
  /\ req[s].pc = pcNow
  /\ \E ok \in BOOLEAN :
       LET r  == req[s]
           r1 == Emit(r, GithubCall(op, r.payload.number, r.payload.repo, ok)) IN
       req' = [req EXCEPT ![s] =
                 IF ~ok
                   THEN Respond(Return(Emit(r1, Error("Failed to get PR details",
                                                      r.payload.number, ""))))
                 ELSE IF pcNext = "sync" THEN Respond(SyncPR(r1))
                 ELSE [r1 EXCEPT !.pc = pcNext]]
  /\ UNCHANGED <<jiraClient, issues, delivered>>

PullRequestsGet(s) == EnrichStep(s, "pr_get", "PullRequests.Get", "pr_files")

PullRequestsListFiles(s) ==
  EnrichStep(s, "pr_files", "PullRequests.ListFiles", "pr_reviews")

PullRequestsListReviews(s) ==
  EnrichStep(s, "pr_reviews", "PullRequests.ListReviews", "sync")

\* the record Issue.Create stores in the tracker
NewIssue(key, r) ==
  [ key |-> key, project |-> ProjectKey, labels |-> IssueLabels(r.payload.number),
    repo |-> r.payload.repo, status |-> InitialStatus ]

\* CreatePRIssue up to Issue.Create: on failure handlePROpened logs and returns,
\* on success moveToStatus(issue.Key, "Open_PR") starts
CreatePRIssue(s) ==
  /\ req[s].pc = "create"
  /\ LET r    == req[s]
         key  == Len(issues) + 1
         call(ok) == [JiraCall("Issue.Create", IF ok THEN key ELSE 0,
                               r.payload.number, ProjectKey, ok)
                        EXCEPT !.labels = IssueLabels(r.payload.number)] IN
       \/ /\ req' = [req EXCEPT ![s] =
                       Respond(logDetailedPR(
                         Emit(Emit(r, call(FALSE)),
                              Error("Failed to create Jira issue", r.payload.number, ""))))]
          /\ UNCHANGED issues
       \/ /\ issues' = Append(issues, NewIssue(key, r))
          /\ req' = [req EXCEPT ![s] =
                       [Emit(r, call(TRUE)) EXCEPT !.pc = "transitions",
                                                   !.issueKey = key,
                                                   !.target = "Open_PR"]]
  /\ UNCHANGED <<jiraClient, delivered>>

\* FindPRIssue: the JQL search with MaxResults 1; without an ORDER BY the
\* tracker may return any one of the matching issues
FindPRIssue(s) ==
  /\ req[s].pc = "search"
  /\ LET r     == req[s]
         label == PRLabel(r.payload.number)
         call(ok, res) == [JiraCall("Issue.Search", 0, r.payload.number, label, ok)
                             EXCEPT !.res = res,
                                    !.q = JQL(ProjectKey, r.payload.number)]
         fail(res, ok, err) ==
           Respond(AfterMove([Emit(r, call(ok, res)) EXCEPT !.target = "Merged_PR",
                                                            !.err = err],
                             FALSE)) IN
       \/ req' = [req EXCEPT ![s] = fail(<<>>, FALSE, UpstreamError)]
       \/ /\ Matching(ProjectKey, label) = {}
          /\ req' = [req EXCEPT ![s] = fail(<<>>, TRUE, NotFoundError)]
       \/ \E k \in Matching(ProjectKey, label) :
            LET res == <<k>> IN
            req' = [req EXCEPT ![s] =
                      [Emit(r, call(TRUE, res)) EXCEPT !.pc = "transitions",
                                                       !.issueKey = FoundIssue(res),
                                                       !.target = "Merged_PR"]]
  /\ UNCHANGED <<jiraClient, issues, delivered>>

\* moveToStatus up to Issue.GetTransitions and the scan for the target status
GetTransitions(s) ==
  /\ req[s].pc = "transitions"
  /\ LET r == req[s]
         call(ok, tl) == [JiraCall("Issue.GetTransitions", r.issueKey, 0, r.target, ok)
                            EXCEPT !.tl = tl] IN
       \/ req' = [req EXCEPT ![s] =
                    Respond(AfterMove([Emit(r, call(FALSE, <<>>))
                                         EXCEPT !.err = UpstreamError], FALSE))]
       \/ \E tl \in TransitionLists :
            LET m  == FirstMatch(tl, r.target, 1)
                r1 == Emit(r, call(TRUE, tl)) IN
            req' = [req EXCEPT ![s] =
                      IF m = 0
                        THEN Respond(AfterMove(
                               [r1 EXCEPT !.err = NoTransitionError(r.target)], FALSE))
                      ELSE [r1 EXCEPT !.pc = "do_transition", !.trans = tl[m]]]
  /\ UNCHANGED <<jiraClient, issues, delivered>>

\* moveToStatus: Issue.DoTransition with the transition found
DoTransition(s) ==
  /\ req[s].pc = "do_transition"
  /\ \E ok \in BOOLEAN :
       LET r  == req[s]
           r1 == [Emit(r, JiraCall("Issue.DoTransition", r.issueKey, r.trans.id,
                                   r.trans.to, ok))
                    EXCEPT !.err = IF ok THEN "" ELSE UpstreamError] IN
       /\ req' = [req EXCEPT ![s] = Respond(AfterMove(r1, ok))]
       /\ issues' = IF ok THEN [issues EXCEPT ![r.issueKey].status = r.trans.to]
                    ELSE issues
  /\ UNCHANGED <<jiraClient, delivered>>

\* the worker of a finished request ends
Retire(s) ==
  /\ req[s].pc \in {"done", "panicked"}
  /\ req' = [req EXCEPT ![s] = IdleReq]
  /\ UNCHANGED <<jiraClient, issues, delivered>>

\* a step of the worker in slot s
Step(s) ==
  \/ HandleOrgWebhook(s)
  \/ HandleRepoWebhook(s)
  \/ CreateRepoWebhook(s)
  \/ GetCommitDetails(s)
  \/ GetFileDiff(s)
  \/ PullRequestsGet(s)
  \/ PullRequestsListFiles(s)
  \/ PullRequestsListReviews(s)
  \/ CreatePRIssue(s)
  \/ FindPRIssue(s)
  \/ GetTransitions(s)
  \/ DoTransition(s)
  \/ Retire(s)

\* deliveries handled one after the other: the workers share nothing in the
\* process but the read-only client handles, so what one request does is
\* explored against every tracker state earlier deliveries can leave
Next ==
  \/ /\ \A s \in Slots : req[s].pc = "idle"
     /\ Deliver("w1")
  \/ \E s \in Slots : Step(s)

Spec == Init /\ [][Next]_vars

(* ------------------ concurrent pull request deliveries ------------------ *)

\* deliveries explored when pull request events are handled concurrently
MaxPRDeliveries == 3

\* well-formed pull_request payloads that reach the tracker: opened, and
\* closed with merged = true
TrackedPayloads ==
  { p \in PullRequestPayloads :
      /\ p.pr = "ok" /\ p.hasRepo
      /\ \/ p.action = "opened"
         \/ p.action = "closed" /\ p.merged }

\* the router hands a pull_request POST on /webhook/repo to a new worker,
\* whatever the other workers are doing
DeliverPullRequest(s) ==
  /\ delivered < MaxPRDeliveries
  /\ req[s].pc = "idle"
  /\ \E payload \in TrackedPayloads :
       req' = [req EXCEPT ![s] = [IdleReq EXCEPT !.pc = "recv", !.entry = "repo",
                                                 !.body = "object",
                                                 !.eventType = "pull_request",
                                                 !.payload = payload]]
  /\ delivered' = delivered + 1
  /\ UNCHANGED <<jiraClient, issues>>

\* a step of the worker in slot s that handles a pull_request delivery
PullRequestStep(s) ==
  \/ HandleRepoWebhook(s)
  \/ PullRequestsGet(s)
  \/ PullRequestsListFiles(s)
  \/ PullRequestsListReviews(s)
  \/ CreatePRIssue(s)
  \/ FindPRIssue(s)
  \/ GetTransitions(s)
  \/ DoTransition(s)
  \/ Retire(s)

\* one worker per request: the workers' upstream calls interleave freely
NextConcurrent ==
  \E s \in Slots : DeliverPullRequest(s) \/ PullRequestStep(s)

\* pull_request deliveries that arrive one after the other, each handled to
\* its end before the next arrives
NextSequential ==
  \/ /\ \A s \in Slots : req[s].pc = "idle"
     /\ DeliverPullRequest("w1")
  \/ \E s \in Slots : PullRequestStep(s)

SpecSequential == Init /\ [][NextSequential]_vars

SpecConcurrent == Init /\ [][NextConcurrent]_vars

(* ----------------------- vocabulary of the claims ---------------------- *)

\* positions of the trace of r holding an entry of kind k and operation op
At(r, k, op) == {i \in DOMAIN r.trace : r.trace[i].k = k /\ r.trace[i].op = op}

\* positions of the trace of r holding an upstream call to client k
CallsTo(r, k) == {i \in DOMAIN r.trace : r.trace[i].k = k}

\* positions of the calls moveToStatus makes
MoveCalls(r) == At(r, "jira", "Issue.GetTransitions") \cup At(r, "jira", "Issue.DoTransition")

Finished(r) == r.pc \in {"done", "panicked"}

Accepted(r) == r.pc \notin {"idle", "recv"}

IsRepoPR(r) == Accepted(r) /\ r.entry = "repo" /\ r.eventType = "pull_request"

\* all three enrichment calls of the request succeeded
Enriched(r) ==
  \E i \in At(r, "github", "PullRequests.ListReviews") : r.trace[i].ok

IsMergedEvent(r) == IsRepoPR(r) /\ r.payload.action = "closed" /\ r.payload.merged

IsOpenedEvent(r) == IsRepoPR(r) /\ r.payload.action = "opened"

Confirmation(r) == IF r.entry = "org" THEN OrgConfirmation ELSE RepoConfirmation

(* ------------------------------- claims -------------------------------- *)

\* C1: a repository-scope pull_request opened event (tracker client configured,
\* enrichment succeeded) makes exactly one Issue.Create call, whose labels
\* include pr-<number>; once the create succeeded moveToStatus(key, "Open_PR")
\* is invoked exactly once on the created issue (one GetTransitions call, at
\* most one DoTransition), whatever its outcome; no other tracker call is made.
C1_OpenedCreatesOnce ==
  \A s \in Slots :
    LET r  == req[s]
        cs == At(r, "jira", "Issue.Create")
        gs == At(r, "jira", "Issue.GetTransitions")
        ds == At(r, "jira", "Issue.DoTransition") IN
    (IsOpenedEvent(r) /\ jiraClient /\ Enriched(r) /\ r.pc = "done") =>
      /\ Cardinality(cs) = 1
      /\ \A c \in cs :
           /\ \E j \in DOMAIN r.trace[c].labels :
                r.trace[c].labels[j] = "pr-" \o ToString(r.payload.number)
           /\ r.trace[c].ok =>
                /\ Cardinality(gs) = 1
                /\ Cardinality(ds) <= 1
                /\ \A m \in gs \cup ds :
                     /\ m > c
                     /\ r.trace[m].key = r.trace[c].key
                     /\ r.trace[m].s = "Open_PR"
           /\ ~r.trace[c].ok => gs \cup ds = {}
      /\ CallsTo(r, "jira") = cs \cup gs \cup ds

\* C1 witness: the create succeeded and the transition to Open_PR was executed
\* and failed
C1_Witness ==
  \E s \in Slots :
    LET r == req[s] IN
    /\ IsOpenedEvent(r) /\ jiraClient /\ Enriched(r) /\ r.pc = "done"
    /\ \E c \in At(r, "jira", "Issue.Create") : r.trace[c].ok
    /\ \E d \in At(r, "jira", "Issue.DoTransition") : ~r.trace[d].ok

\* C2: while handling a repository-scope closed-and-merged event the first
\* tracker call is the search by label pr-<number> (made once the tracker
\* step is reached); every call of the transition to Merged_PR comes after a
\* search that returned an issue and is on that issue; when the search fails
\* or matches nothing no transition call is made, the failure is in the error
\* log and the response is the 200 confirmation.
C2_MergedSearchesFirst ==
  \A s \in Slots :
    LET r  == req[s]
        ss == At(r, "jira", "Issue.Search")
        found(j) == r.trace[j].ok /\ Len(r.trace[j].res) > 0 IN
    IsMergedEvent(r) =>
      /\ Cardinality(ss) <= 1
      /\ \A j \in ss :
           /\ r.trace[j].s = "pr-" \o ToString(r.payload.number)
           /\ \A i \in CallsTo(r, "jira") : j <= i
      /\ (jiraClient /\ Enriched(r) /\ r.pc = "done") => Cardinality(ss) = 1
      /\ \A i \in MoveCalls(r) :
           /\ r.trace[i].s = "Merged_PR"
           /\ \E j \in ss : j < i /\ found(j) /\ r.trace[i].key = r.trace[j].res[1]
      /\ \A j \in ss :
           (~found(j) /\ r.pc = "done") =>
             /\ MoveCalls(r) = {}
             /\ \E e \in At(r, "error", "Failed to move PR to merged") : e > j
             /\ r.status = 200 /\ r.respBody = RepoConfirmation

\* C2 witness: the search returned an issue and the transition to Merged_PR
\* was executed on it
C2_Witness ==
  \E s \in Slots :
    LET r == req[s] IN
    /\ IsMergedEvent(r) /\ r.pc = "done"
    /\ \E j \in At(r, "jira", "Issue.Search"), d \in At(r, "jira", "Issue.DoTransition") :
         /\ r.trace[j].res = <<r.trace[d].key>>
         /\ r.trace[d].ok
         /\ issues[r.trace[d].key].status = "Merged_PR"

\* C3: a pull_request event that is closed without merge, synchronize, or any
\* action other than opened/closed makes no tracker call of any kind, and the
\* tracker's issues are the same when it finishes.
C3_OtherActionsNoTracker ==
  /\ [](\A s \in Slots :
          LET r == req[s] IN
          (/\ Accepted(r) /\ r.eventType = "pull_request"
           /\ r.payload.action # "opened"
           /\ ~(r.payload.action = "closed" /\ r.payload.merged))
            => CallsTo(r, "jira") = {})
  /\ [][\A s \in Slots :
          (/\ req[s].eventType = "pull_request"
           /\ req[s].payload.action # "opened"
           /\ ~(req[s].payload.action = "closed" /\ req[s].payload.merged)
           /\ req'[s] # req[s]) => issues' = issues]_vars

\* C3 witness: a synchronize event fully handled with the tracker configured
\* while the tracker holds an issue for the same pull request
C3_Witness ==
  \E s \in Slots :
    LET r == req[s] IN
    /\ IsRepoPR(r) /\ r.payload.action = "synchronize" /\ r.pc = "done"
    /\ jiraClient /\ Enriched(r)
    /\ Matching(ProjectKey, PRLabel(r.payload.number)) # {}

\* C4: a transition to Merged_PR is invoked only while a repository-scope
\* pull_request event with action closed and merged=true is handled: every
\* moveToStatus call aimed at Merged_PR belongs to such a request, and an
\* issue enters Merged_PR only in a step of such a request.
C4_MergedOnlyFromClosedMerged ==
  /\ [](\A s \in Slots :
          \A i \in MoveCalls(req[s]) :
            req[s].trace[i].s = "Merged_PR" => IsMergedEvent(req[s]))
  /\ [][\A k \in DOMAIN issues' :
          (/\ issues'[k].status = "Merged_PR"
           /\ (k \in DOMAIN issues => issues[k].status # "Merged_PR"))
            => \E s \in Slots : IsMergedEvent(req[s]) /\ req'[s] # req[s]]_vars

\* C4 witness: a closed-and-merged event has looked up the transitions of the
\* issue it found and is about to execute the one to Merged_PR
C4_Witness ==
  \E s \in Slots :
    LET r == req[s] IN
    /\ IsMergedEvent(r) /\ r.pc = "do_transition" /\ r.trans.to = "Merged_PR"
    /\ \E g \in At(r, "jira", "Issue.GetTransitions") : r.trace[g].s = "Merged_PR"

\* C5: issue creation is not idempotent: every repository-scope opened event
\* whose enrichment succeeded makes its own Issue.Create call with no
\* Issue.Search before it, and a successful create adds one more issue under
\* the label pr-<number> even when the tracker already holds one, so the
\* same event delivered twice leaves two issues.
C5_CreateNotIdempotent ==
  /\ [](\A s \in Slots :
          LET r == req[s] IN
          (IsOpenedEvent(r) /\ jiraClient /\ Enriched(r) /\ Finished(r)) =>
            /\ Cardinality(At(r, "jira", "Issue.Create")) = 1
            /\ At(r, "jira", "Issue.Search") = {})
  /\ [][\A s \in Slots :
          LET label == "pr-" \o ToString(req[s].payload.number)
              last  == Len(req[s].trace) + 1 IN
          (req[s].pc = "create" /\ req'[s] # req[s]) =>
            /\ Len(req'[s].trace) >= last
            /\ req'[s].trace[last].k = "jira"
            /\ req'[s].trace[last].op = "Issue.Create"
            /\ req'[s].trace[last].ok =>
                 /\ req'[s].trace[last].key \notin Matching(ProjectKey, label)
                 /\ Matching(ProjectKey, label)' =
                      Matching(ProjectKey, label) \cup {req'[s].trace[last].key}]_vars

\* C5 witness: an opened event has been handled and its create succeeded
\* while the tracker already held an issue for the same pull request of the
\* same repository
C5_Witness ==
  \E s \in Slots :
    LET r == req[s] IN
    /\ IsOpenedEvent(r) /\ r.pc = "done"
    /\ \E c \in At(r, "jira", "Issue.Create") :
         /\ r.trace[c].ok
         /\ \E k \in Matching(ProjectKey, PRLabel(r.payload.number)) :
              /\ k # r.trace[c].key
              /\ issues[k].repo = issues[r.trace[c].key].repo
              /\ issues[k].labels = issues[r.trace[c].key].labels

\* C6 (as claimed): every request with a readable body, an event-type header
\* and a body that decodes as a JSON document is answered 200 with the
\* endpoint's confirmation text, whatever the upstream calls made for it did.
C6_AlwaysConfirmed ==
  \A s \in Slots :
    LET r == req[s] IN
    (Finished(r) /\ r.body \in {"null", "object"} /\ r.eventType # "") =>
      r.status = 200 /\ r.respBody = Confirmation(r)

\* C7: a request whose body is unreadable, whose event-type header is absent
\* or whose body does not decode as JSON is answered 400 with an error text,
\* reaches no event handler and makes no call to either upstream client.
C7_BadRequestRejected ==
  \A s \in Slots :
    LET r == req[s] IN
    (Accepted(r) /\ (r.body \in {"unreadable", "malformed", "array"} \/ r.eventType = "")) =>
      /\ r.pc = "done"
      /\ r.status = 400
      /\ r.respBody \notin {OrgConfirmation, RepoConfirmation}
      /\ \A i \in DOMAIN r.trace : r.trace[i].k = "error"
      /\ CallsTo(r, "dispatch") = {}
      /\ CallsTo(r, "github") = {}
      /\ CallsTo(r, "jira") = {}

\* C7 witness: a pull_request delivery with a malformed body on the
\* organization endpoint has been answered
C7_Witness ==
  \E s \in Slots :
    LET r == req[s] IN
    /\ r.pc = "done" /\ r.entry = "org" /\ r.body = "malformed"
    /\ r.eventType = "pull_request" /\ r.status = 400

\* C8 (as claimed): whatever payload fields are absent, handling goes on with
\* zero values and the request completes normally: no accepted request ends
\* in a failure of the handler.
C8_MissingFieldsDegrade ==
  \A s \in Slots :
    LET r == req[s] IN
    (r.body \in {"null", "object"} /\ r.eventType # "") => r.pc # "panicked"

\* the handler the claim assigns to an entry point and an event-type label
ExpectedHandler(entry, label) ==
  IF label = "ping" THEN "ping"
  ELSE IF entry = "org" /\ label = "repository" THEN "handleRepositoryEvent"
  ELSE IF entry = "org" /\ label = "push" THEN "handlePushEvent"
  ELSE IF entry = "org" /\ label = "pull_request" THEN "handlePullRequestEvent"
  ELSE IF entry = "repo" /\ label = "push" THEN "handlePushEventDetailed"
  ELSE IF entry = "repo" /\ label = "pull_request" THEN "handlePullRequestEventDetailed"
  ELSE "default"

\* C9: a structurally valid request is dispatched exactly once, first thing,
\* to the handler its entry point and event-type label determine; a label
\* outside the entry point's set is logged once, makes no upstream call and
\* is answered 200.
C9_ExactlyOneHandler ==
  \A s \in Slots :
    LET r == req[s] IN
    (Accepted(r) /\ r.body \in {"null", "object"} /\ r.eventType # "") =>
      /\ CallsTo(r, "dispatch") = {1}
      /\ r.trace[1].op = ExpectedHandler(r.entry, r.eventType)
      /\ ExpectedHandler(r.entry, r.eventType) = "default" =>
           /\ r.pc = "done"
           /\ r.status = 200
           /\ Len(r.trace) = 2
           /\ r.trace[2].k = "info"
           /\ r.trace[2].s = r.eventType

\* C9 witness: a repository event, which only the organization endpoint
\* knows, has been answered by the repository endpoint
C9_Witness ==
  \E s \in Slots :
    LET r == req[s] IN
    /\ r.pc = "done" /\ r.entry = "repo" /\ r.eventType = "repository"
    /\ r.body = "object" /\ r.payload.action = "created" /\ r.payload.hasRepo

\* C10: push and pull_request events on the organization endpoint are
\* summary-only: one log record, no call to the hosting platform, no call to
\* the tracker, and the tracker's issues are left as they were.
C10_OrgSummaryOnly ==
  /\ [](\A s \in Slots :
          LET r == req[s] IN
          (Accepted(r) /\ r.entry = "org" /\ r.eventType \in {"push", "pull_request"}
             /\ r.body \in {"null", "object"}) =>
            /\ r.pc = "done"
            /\ r.status = 200
            /\ CallsTo(r, "github") = {}
            /\ CallsTo(r, "jira") = {}
            /\ Cardinality(CallsTo(r, "info")) = 1)
  /\ [][\A s \in Slots :
          (req[s].entry = "org" /\ req[s].eventType \in {"push", "pull_request"}
             /\ req'[s] # req[s]) => issues' = issues]_vars

\* C10 witness: a closed-and-merged event has been handled by the
\* organization endpoint, tracker configured, while the tracker holds an
\* issue for that pull request that is not in Merged_PR
C10_Witness ==
  \E s \in Slots :
    LET r == req[s] IN
    /\ r.pc = "done" /\ r.entry = "org" /\ r.eventType = "pull_request"
    /\ r.payload.action = "closed" /\ r.payload.merged /\ r.payload.pr = "ok"
    /\ jiraClient
    /\ \E k \in Matching(ProjectKey, PRLabel(r.payload.number)) :
         issues[k].status # "Merged_PR"

IsRepoPush(r) == Accepted(r) /\ r.entry = "repo" /\ r.eventType = "push"

\* indexes of the commits array whose element is a JSON object
ObjectCommits(r) == {i \in DOMAIN r.payload.commits : r.payload.commits[i].isMap}

\* positions of the trace of r holding an entry of operation op about commit i
ForCommit(r, op, i) == {j \in DOMAIN r.trace : r.trace[j].op = op /\ r.trace[j].n = i}

\* positions of the upstream calls of r that failed
FailedCalls(r) == {j \in DOMAIN r.trace : r.trace[j].k \in {"github", "jira"} /\ ~r.trace[j].ok}

\* C11: a finished repository-scope push whose N commits are all objects and
\* whose upstream calls all succeeded made exactly N commit-detail calls and N
\* diff calls and emitted N commit records, commit by commit in array order:
\* detail call, then diff call, then record, then the next commit's detail call.
C11_PushCountsAndOrder ==
  \A s \in Slots :
    LET r == req[s]
        N == Len(r.payload.commits) IN
    (/\ IsRepoPush(r) /\ Finished(r) /\ r.payload.hasCommits
     /\ ObjectCommits(r) = 1..N
     /\ FailedCalls(r) = {}) =>
       /\ Cardinality(At(r, "github", "GetCommitDetails")) = N
       /\ Cardinality(At(r, "github", "GetFileDiff")) = N
       /\ Cardinality(At(r, "info", "COMMIT DETAILS")) = N
       /\ \A i \in 1..N :
            \E a, b, c \in DOMAIN r.trace :
              /\ ForCommit(r, "GetCommitDetails", i) = {a}
              /\ ForCommit(r, "GetFileDiff", i) = {b}
              /\ ForCommit(r, "COMMIT DETAILS", i) = {c}
              /\ a < b /\ b < c
              /\ \A j \in 1..N : i < j =>
                   \A x \in ForCommit(r, "GetCommitDetails", j) : c < x

\* C12: a failed diff call of commit i (its detail call had succeeded) is
\* followed in the log by the error and then by the commit's record, which
\* carries the placeholder diff and the statistics the detail call returned;
\* the step that meets the failure goes on to the next object commit of the
\* array, or ends the request with the 200 confirmation when there is none.
C12_DiffFailureStillLogged ==
  /\ [](\A s \in Slots :
          LET r == req[s] IN
          \A j \in At(r, "github", "GetFileDiff") :
            ~r.trace[j].ok =>
              /\ j + 2 <= Len(r.trace)
              /\ r.trace[j + 1].k = "error"
              /\ r.trace[j + 1].op = "Failed to get file diff"
              /\ r.trace[j + 2].k = "info"
              /\ r.trace[j + 2].op = "COMMIT DETAILS"
              /\ r.trace[j + 2].n = r.trace[j].n
              /\ r.trace[j + 2].s = r.payload.commits[r.trace[j].n].id
              /\ r.trace[j + 2].d = "Diff unavailable"
              /\ \E a \in ForCommit(r, "GetCommitDetails", r.trace[j].n) :
                   /\ a < j
                   /\ r.trace[a].ok
                   /\ r.trace[j + 2].key = r.trace[a].key)
  /\ [][\A s \in Slots :
          LET r    == req[s]
              r2   == req'[s]
              rest == {i \in ObjectCommits(r) : i > r.i} IN
          (/\ r.pc = "commit_diff"
           /\ Len(r2.trace) = Len(r.trace) + 3
           /\ r2.trace[Len(r.trace) + 1].op = "GetFileDiff"
           /\ ~r2.trace[Len(r.trace) + 1].ok) =>
             IF rest = {}
               THEN r2.pc = "done" /\ r2.status = 200
             ELSE /\ r2.pc = "commit_detail"
                  /\ r2.i \in rest
                  /\ \A i \in rest : r2.i <= i]_vars

\* C12 witness: a push has ended whose first commit's diff call failed and
\* whose second commit got its record
C12_Witness ==
  \E s \in Slots :
    LET r == req[s] IN
    /\ r.pc = "done" /\ IsRepoPush(r)
    /\ \E j \in ForCommit(r, "GetFileDiff", 1) : ~r.trace[j].ok
    /\ \E c1 \in ForCommit(r, "COMMIT DETAILS", 1), c2 \in ForCommit(r, "COMMIT DETAILS", 2) :
         c1 < c2 /\ r.trace[c1].d = "Diff unavailable"

\* C13: a failed commit-detail call of commit i is followed by its error log
\* and by neither a diff call nor a record for commit i; the step that meets
\* the failure goes on to the next object commit of the array (or ends the
\* request with the 200 confirmation), and a push that ended normally made
\* exactly one detail call for every object commit of the array.
C13_DetailFailureSkipsOneCommit ==
  /\ [](\A s \in Slots :
          LET r == req[s] IN
          /\ \A j \in At(r, "github", "GetCommitDetails") :
               ~r.trace[j].ok =>
                 /\ j + 1 <= Len(r.trace)
                 /\ r.trace[j + 1].k = "error"
                 /\ r.trace[j + 1].op = "Failed to get commit details"
                 /\ ForCommit(r, "GetFileDiff", r.trace[j].n) = {}
                 /\ ForCommit(r, "COMMIT DETAILS", r.trace[j].n) = {}
          /\ (IsRepoPush(r) /\ r.pc = "done" /\ r.payload.hasCommits) =>
               \A i \in ObjectCommits(r) :
                 Cardinality(ForCommit(r, "GetCommitDetails", i)) = 1)
  /\ [][\A s \in Slots :
          LET r    == req[s]
              r2   == req'[s]
              rest == {i \in ObjectCommits(r) : i > r.i} IN
          (/\ r.pc = "commit_detail"
           /\ Len(r2.trace) > Len(r.trace)
           /\ ~r2.trace[Len(r.trace) + 1].ok) =>
             IF rest = {}
               THEN r2.pc = "done" /\ r2.status = 200
             ELSE /\ r2.pc = "commit_detail"
                  /\ r2.i \in rest
                  /\ \A i \in rest : r2.i <= i]_vars

\* C13 witness: a push has ended whose first commit's detail call failed and
\* whose second commit got its detail call, its diff call and its record
C13_Witness ==
  \E s \in Slots :
    LET r == req[s] IN
    /\ r.pc = "done" /\ IsRepoPush(r)
    /\ \E j \in ForCommit(r, "GetCommitDetails", 1) : ~r.trace[j].ok
    /\ \E j \in ForCommit(r, "GetCommitDetails", 2) : r.trace[j].ok
    /\ ForCommit(r, "GetFileDiff", 2) # {}
    /\ ForCommit(r, "COMMIT DETAILS", 2) # {}

\* positions of the three enrichment calls of r
EnrichCalls(r) ==
  At(r, "github", "PullRequests.Get") \cup At(r, "github", "PullRequests.ListFiles")
    \cup At(r, "github", "PullRequests.ListReviews")

\* C14: the enrichment of a pull request calls PR metadata, then the file list,
\* then the review list, each at most once and each only after the previous
\* one succeeded; a failed call is followed by the error log and by nothing
\* else (the request ends with its confirmation), and every tracker call of a
\* request comes after a successful review-list call, whatever the action.
C14_EnrichmentAllOrNothing ==
  \A s \in Slots :
    LET r == req[s] IN
    /\ Cardinality(At(r, "github", "PullRequests.Get")) <= 1
    /\ Cardinality(At(r, "github", "PullRequests.ListFiles")) <= 1
    /\ Cardinality(At(r, "github", "PullRequests.ListReviews")) <= 1
    /\ \A b \in At(r, "github", "PullRequests.ListFiles") :
         \E a \in At(r, "github", "PullRequests.Get") : a < b /\ r.trace[a].ok
    /\ \A c \in At(r, "github", "PullRequests.ListReviews") :
         \E b \in At(r, "github", "PullRequests.ListFiles") : b < c /\ r.trace[b].ok
    /\ \A j \in EnrichCalls(r) :
         ~r.trace[j].ok =>
           /\ Len(r.trace) = j + 1
           /\ r.trace[j + 1].k = "error"
           /\ r.trace[j + 1].op = "Failed to get PR details"
           /\ r.pc = "done" /\ r.status = 200
    /\ \A t \in CallsTo(r, "jira") :
         \E c \in At(r, "github", "PullRequests.ListReviews") : c < t /\ r.trace[c].ok

\* C14 witness: an opened event, tracker configured, has ended after its
\* file-list call failed
C14_Witness ==
  \E s \in Slots :
    LET r == req[s] IN
    /\ IsOpenedEvent(r) /\ jiraClient /\ r.pc = "done"
    /\ \E a \in At(r, "github", "PullRequests.Get") : r.trace[a].ok
    /\ \E b \in At(r, "github", "PullRequests.ListFiles") : ~r.trace[b].ok

\* r is a request the organization endpoint handed to handleRepositoryEvent
IsOrgRepository(r) ==
  /\ r.entry = "org" /\ r.eventType = "repository"
  /\ At(r, "dispatch", "handleRepositoryEvent") # {}

\* the registration calls of r are made on behalf of a repository event with
\* action created on the organization endpoint
RegistrationOnlyOnCreated(r) ==
  At(r, "github", "Repositories.CreateHook") # {} =>
    IsOrgRepository(r) /\ r.payload.action = "created"

\* r made exactly one registration call, after the new-repository record; its
\* failure is logged and the request still ends with the 200 confirmation
RegisteredOnce(r) ==
  /\ Cardinality(At(r, "github", "Repositories.CreateHook")) = 1
  /\ \A h \in At(r, "github", "Repositories.CreateHook") :
       /\ \E a \in At(r, "info", "NEW REPOSITORY CREATED!") : a < h
       /\ ~r.trace[h].ok =>
            /\ h < Len(r.trace)
            /\ r.trace[h + 1].k = "error"
            /\ r.trace[h + 1].op = "Failed to add webhook to new repo"
  /\ r.pc = "done" /\ r.status = 200

\* r produced neither the new-repository record nor a registration call
NotProvisioned(r) ==
  /\ At(r, "info", "NEW REPOSITORY CREATED!") = {}
  /\ At(r, "github", "Repositories.CreateHook") = {}

\* C15 as stated: a registration call is made only for a repository event
\* with action created on the organization endpoint; every such event, once
\* handled, made exactly one, after the new-repository record, a failure being
\* logged without changing the 200; any other action produces neither.
C15_EveryCreatedRegisters ==
  \A s \in Slots :
    LET r == req[s] IN
    /\ RegistrationOnlyOnCreated(r)
    /\ (IsOrgRepository(r) /\ Finished(r)) =>
         IF r.payload.action = "created" THEN RegisteredOnce(r)
         ELSE NotProvisioned(r)

\* C15 amended: the same, for created events whose payload carries a
\* repository object; a created event without one is answered 200 after an
\* error log, with neither the record nor a registration call.
C15_CreatedWithRepositoryRegisters ==
  \A s \in Slots :
    LET r == req[s] IN
    /\ RegistrationOnlyOnCreated(r)
    /\ (IsOrgRepository(r) /\ Finished(r)) =>
         IF r.payload.action = "created" /\ r.payload.hasRepo THEN RegisteredOnce(r)
         ELSE /\ NotProvisioned(r)
              /\ r.pc = "done" /\ r.status = 200
              /\ r.payload.action = "created" =>
                   At(r, "error", "Invalid repository data in payload") # {}

\* C15 witness: a created event has been handled whose registration failed
C15_Witness ==
  \E s \in Slots :
    LET r == req[s] IN
    /\ IsOrgRepository(r) /\ r.pc = "done" /\ r.status = 200
    /\ r.payload.action = "created" /\ r.payload.hasRepo
    /\ \E h \in At(r, "github", "Repositories.CreateHook") : ~r.trace[h].ok

\* indexes of the transitions of tl whose destination name is target
Destinations(tl, target) == {m \in DOMAIN tl : tl[m].to = target}

\* C16: every transition execution immediately follows a successful listing
\* for the same issue and executes the transition of least index whose
\* destination name is the target, character for character; a listing is
\* followed by at most that one execution; a listing that failed or that holds
\* no transition to the target is followed by no execution, and moveToStatus
\* then returns the listing's error, respectively the no-transition error.
C16_FirstExactTransition ==
  \A s \in Slots :
    LET r == req[s] IN
    /\ \A d \in At(r, "jira", "Issue.DoTransition") :
         /\ d - 1 \in At(r, "jira", "Issue.GetTransitions")
         /\ LET g    == r.trace[d - 1]
                hits == Destinations(g.tl, g.s) IN
              /\ g.ok
              /\ g.key = r.trace[d].key
              /\ \E m \in hits :
                   /\ \A h \in hits : m <= h
                   /\ r.trace[d].n = g.tl[m].id
                   /\ r.trace[d].s = g.s
    /\ \A g \in At(r, "jira", "Issue.GetTransitions") :
         LET e    == r.trace[g]
             hits == Destinations(e.tl, e.s) IN
         /\ \A d \in At(r, "jira", "Issue.DoTransition") : d > g => d = g + 1
         /\ (e.ok /\ hits # {}) =>
              \/ r.pc = "do_transition" /\ Len(r.trace) = g
              \/ g + 1 \in At(r, "jira", "Issue.DoTransition")
         /\ (e.ok /\ hits = {}) =>
              /\ g + 1 \notin At(r, "jira", "Issue.DoTransition")
              /\ r.err = "no transition found to status: " \o e.s
         /\ ~e.ok =>
              /\ g + 1 \notin At(r, "jira", "Issue.DoTransition")
              /\ r.err = UpstreamError

\* C16 witness: a listing that offers two transitions to the target after one
\* to another status has been followed by the execution of the first of the two
C16_Witness ==
  \E s \in Slots :
    LET r == req[s] IN
    \E d \in At(r, "jira", "Issue.DoTransition") :
      /\ d > 1
      /\ Cardinality(Destinations(r.trace[d - 1].tl, r.trace[d - 1].s)) = 2
      /\ r.trace[d - 1].tl[1].to # r.trace[d - 1].s
      /\ r.trace[d].ok

\* C16 witness: a listing whose only transitions differ from the target in
\* letter case has been followed by no execution
C16_CaseWitness ==
  \E s \in Slots :
    LET r == req[s] IN
    /\ Finished(r)
    /\ \E g \in At(r, "jira", "Issue.GetTransitions") :
         /\ r.trace[g].ok /\ r.trace[g].s = "Open_PR"
         /\ \E m \in DOMAIN r.trace[g].tl : r.trace[g].tl[m].to = "open_pr"
    /\ At(r, "jira", "Issue.DoTransition") = {}

\* no transition execution of r succeeded
MoveFailed(r) == \A d \in At(r, "jira", "Issue.DoTransition") : ~r.trace[d].ok

\* C17: when the create call of a finished request succeeded and the move to
\* Open_PR did not, the handler reports the creation as a success, the request
\* made no tracker call but the create and those of the move, and the issue is
\* in the tracker with the labels and the status it was created with; when the
\* create call failed the failure is reported, no call of the move was made
\* and the tracker is as it was. No step removes or relabels an issue.
C17_CreateSurvivesFailedOpen ==
  /\ [](\A s \in Slots :
          LET r == req[s] IN
          \A c \in At(r, "jira", "Issue.Create") :
            IF r.trace[c].ok
              THEN (Finished(r) /\ MoveFailed(r)) =>
                     /\ At(r, "info", "Created Jira issue in Open_PR status") # {}
                     /\ At(r, "error", "Failed to create Jira issue") = {}
                     /\ \A t \in CallsTo(r, "jira") : t = c \/ t \in MoveCalls(r)
                     /\ r.trace[c].key \in 1..Len(issues)
                     /\ issues[r.trace[c].key].labels = r.trace[c].labels
                     /\ issues[r.trace[c].key].status = InitialStatus
            ELSE /\ MoveCalls(r) = {}
                 /\ At(r, "error", "Failed to create Jira issue") # {}
                 /\ At(r, "info", "Created Jira issue in Open_PR status") = {}
                 /\ Finished(r))
  /\ [][/\ Len(issues') >= Len(issues)
        /\ \A k \in 1..Len(issues) :
             /\ issues'[k].key = issues[k].key
             /\ issues'[k].project = issues[k].project
             /\ issues'[k].labels = issues[k].labels
        /\ \A s \in Slots :
             (/\ req[s].pc = "create"
              /\ Len(req'[s].trace) > Len(req[s].trace)
              /\ ~req'[s].trace[Len(req[s].trace) + 1].ok) => issues' = issues]_vars

\* C17 witness: an opened event has ended whose create call succeeded and
\* whose transition execution failed, the issue being in its initial status
C17_Witness ==
  \E s \in Slots :
    LET r == req[s] IN
    /\ IsOpenedEvent(r) /\ r.pc = "done"
    /\ \E c \in At(r, "jira", "Issue.Create") :
         r.trace[c].ok /\ issues[r.trace[c].key].status = InitialStatus
    /\ \E d \in At(r, "jira", "Issue.DoTransition") : ~r.trace[d].ok

\* C18: a finished request whose create call succeeded and whose move to
\* Open_PR failed (listing failed, no transition to Open_PR, or execution
\* failed) has an error record in its log after the create call.
C18_FailedOpenIsLogged ==
  \A s \in Slots :
    LET r == req[s] IN
    \A c \in At(r, "jira", "Issue.Create") :
      (Finished(r) /\ r.trace[c].ok /\ MoveFailed(r)) =>
        \E e \in CallsTo(r, "error") : c < e

C19_NotFoundWitness ==
  \E s \in Slots :
    LET r == req[s] IN
    /\ IsMergedEvent(r) /\ r.pc = "done"
    /\ \E j \in At(r, "jira", "Issue.Search") : r.trace[j].ok /\ r.trace[j].res = <<>>

\* the upstream operations a request makes once at most
SingleOps ==
  { "Repositories.CreateHook", "PullRequests.Get", "PullRequests.ListFiles",
    "PullRequests.ListReviews", "Issue.Create", "Issue.Search",
    "Issue.GetTransitions", "Issue.DoTransition" }

\* positions of the upstream calls of r of operation op
Calls(r, op) ==
  {j \in DOMAIN r.trace : r.trace[j].k \in {"github", "jira"} /\ r.trace[j].op = op}

\* C20: within one request every upstream operation is invoked at most once
\* per unit of work: the detail call and the diff call once per commit index,
\* every other operation once per request; so no failed call is followed by
\* another call of the same operation for the same unit.
C20_NoRetry ==
  \A s \in Slots :
    LET r == req[s] IN
    /\ \A op \in SingleOps : Cardinality(Calls(r, op)) <= 1
    /\ \A op \in {"GetCommitDetails", "GetFileDiff"} :
         \A i \in DOMAIN r.payload.commits :
           Cardinality(Calls(r, op) \cap ForCommit(r, op, i)) <= 1
    /\ \A j \in FailedCalls(r) :
         \A x \in FailedCalls(r) \cup CallsTo(r, "github") \cup CallsTo(r, "jira") :
           (j < x /\ r.trace[x].op = r.trace[j].op) => r.trace[x].n # r.trace[j].n

\* C20 witness: a push has ended in which a commit's detail call failed and a
\* later commit's diff call failed
C20_Witness ==
  \E s \in Slots :
    LET r == req[s] IN
    /\ r.pc = "done" /\ IsRepoPush(r)
    /\ \E j \in ForCommit(r, "GetCommitDetails", 1) : ~r.trace[j].ok
    /\ \E j \in ForCommit(r, "GetFileDiff", 2) : ~r.trace[j].ok

\* C20 witness: a merged event has ended after its transition execution failed
C20_TrackerWitness ==
  \E s \in Slots :
    LET r == req[s] IN
    /\ r.pc = "done" /\ IsMergedEvent(r)
    /\ \E d \in At(r, "jira", "Issue.DoTransition") : ~r.trace[d].ok

\* C21: no step takes an issue out of status Merged_PR, and no step removes an
\* issue from the tracker or changes its key.
C21_MergedIsTerminal ==
  [][/\ Len(issues') >= Len(issues)
     /\ \A k \in 1..Len(issues) :
          /\ issues'[k].key = issues[k].key
          /\ issues[k].status = "Merged_PR" => issues'[k].status = "Merged_PR"]_vars

\* C22: every issue a merged event transitions to Merged_PR was created for
\* the pull request of that event: it carries the label of the event's pull
\* request number and, both repositories being named, was created for the
\* event's repository.
C22_MergedMovesOwnIssue ==
  \A s \in Slots :
    LET r == req[s] IN
    \A d \in At(r, "jira", "Issue.DoTransition") :
      (r.trace[d].ok /\ r.trace[d].s = "Merged_PR") =>
        LET issue == issues[r.trace[d].key] IN
        /\ \E l \in DOMAIN issue.labels :
             issue.labels[l] = "pr-" \o ToString(r.payload.number)
        /\ (issue.repo \in RepoNames /\ r.payload.repo \in RepoNames) =>
             issue.repo = r.payload.repo

\* every listing r got offers a transition to the status r asked for
OffersTarget(r) ==
  \A g \in At(r, "jira", "Issue.GetTransitions") :
    Destinations(r.trace[g].tl, r.trace[g].s) # {}

\* C23: when an opened delivery and a closed-and-merged delivery for the same
\* pull request have both been handled to the end by the repository endpoint,
\* every upstream call of both having succeeded and every listing having
\* offered the transition asked for, the issue the opened delivery created,
\* the only issue of the tracker, is in Merged_PR.
C23_ConcurrentEndsMerged ==
  \A s1, s2 \in Slots :
    LET o == req[s1]
        m == req[s2] IN
    (/\ IsOpenedEvent(o) /\ IsMergedEvent(m)
     /\ o.payload.repo = m.payload.repo /\ o.payload.number = m.payload.number
     /\ o.pc = "done" /\ m.pc = "done"
     /\ FailedCalls(o) = {} /\ FailedCalls(m) = {}
     /\ OffersTarget(o) /\ OffersTarget(m)
     /\ jiraClient /\ Len(issues) = 1) =>
       \A c \in At(o, "jira", "Issue.Create") :
         issues[o.trace[c].key].status = "Merged_PR"

\* issues carrying the label of pull request number n that are in Open_PR
OpenIssuesOf(n) ==
  { k \in 1..Len(issues) :
      /\ issues[k].status = "Open_PR"
      /\ \E l \in DOMAIN issues[k].labels : issues[k].labels[l] = "pr-" \o ToString(n) }

\* C24: once a closed-and-merged event for pull request number n has been
\* handled to the end with its search and its transition execution
\* succeeding, whatever events were handled before it, no issue labelled
\* pr-<n> is in Open_PR.
C24_NoOpenIssueAfterMerge ==
  \A s \in Slots :
    LET r == req[s] IN
    (/\ IsMergedEvent(r) /\ r.pc = "done"
     /\ \A x \in Slots \ {s} : req[x].pc = "idle"
     /\ \E j \in At(r, "jira", "Issue.Search") : r.trace[j].ok
     /\ \E d \in At(r, "jira", "Issue.DoTransition") : r.trace[d].ok) =>
       OpenIssuesOf(r.payload.number) = {}

\* C25: when the tracker client is nil, a pull_request event on the repository
\* endpoint makes no tracker call and leaves the tracker as it is, whatever
\* its action; an event that carries its pull request number is enriched as
\* with a tracker (the metadata call is made, and the two others while the
\* previous one succeeds), is never cut short by a panic, and ends with the
\* 200 confirmation, after the detailed record when the enrichment succeeded.
C25_NilTrackerClientSkipped ==
  /\ [](~jiraClient =>
          \A s \in Slots :
            LET r == req[s] IN
            IsRepoPR(r) =>
              /\ CallsTo(r, "jira") = {}
              /\ r.pc \notin {"create", "search", "transitions", "do_transition"}
              /\ (Finished(r) /\ r.payload.pr = "ok") =>
                   /\ r.pc = "done" /\ r.status = 200
                   /\ r.respBody = RepoConfirmation
                   /\ At(r, "github", "PullRequests.Get") # {}
                   /\ FailedCalls(r) = {} =>
                        /\ At(r, "github", "PullRequests.ListFiles") # {}
                        /\ At(r, "github", "PullRequests.ListReviews") # {}
                        /\ r.trace[Len(r.trace)].k = "info"
                        /\ r.trace[Len(r.trace)].op = "PULL REQUEST")
  /\ [][~jiraClient => issues' = issues]_vars

\* C25 witness: without a tracker client an opened event has been enriched
\* and has ended with its detailed record and the 200 confirmation
C25_Witness ==
  \E s \in Slots :
    LET r == req[s] IN
    /\ ~jiraClient /\ IsOpenedEvent(r) /\ Enriched(r)
    /\ r.pc = "done" /\ r.status = 200
    /\ At(r, "info", "PULL REQUEST") # {}

\* C25 witness: the same for a closed-and-merged event
C25_MergedWitness ==
  \E s \in Slots :
    LET r == req[s] IN
    /\ ~jiraClient /\ IsMergedEvent(r) /\ Enriched(r)
    /\ r.pc = "done" /\ r.status = 200
    /\ At(r, "info", "PULL REQUEST") # {}

====
